---- MODULE Spec2Model ----
(***************************************************************************)
(* Model of scripts/mirror-images.py: the subprocess output-streaming and  *)
(* result-aggregation engine (run_command, _process_streams,               *)
(* _execute_mirror) together with the child process and the two OS pipes   *)
(* it writes to.  Lines are strings; the regular expressions of the source *)
(* are evaluated character by character.                                   *)
(***************************************************************************)
EXTENDS Integers, Sequences, FiniteSets, TLC

(***************************************************************************)
(* Characters and strings.                                                 *)
(***************************************************************************)
Char(s, i) == IF i >= 1 /\ i <= Len(s) THEN SubSeq(s, i, i) ELSE ""

Digits == {"0", "1", "2", "3", "4", "5", "6", "7", "8", "9"}

\* Python's \s and str.rstrip() whitespace, restricted to ASCII.
Spaces == {" ", "\t", "\n", "\r"}

DigitVal(c) ==
  CASE c = "0" -> 0 [] c = "1" -> 1 [] c = "2" -> 2 [] c = "3" -> 3
    [] c = "4" -> 4 [] c = "5" -> 5 [] c = "6" -> 6 [] c = "7" -> 7
    [] c = "8" -> 8 [] c = "9" -> 9

\* First position >= p whose character is not in class cls (Len(s)+1 if none).
RECURSIVE RunEnd(_, _, _)
RunEnd(s, p, cls) ==
  IF p <= Len(s) /\ Char(s, p) \in cls THEN RunEnd(s, p + 1, cls) ELSE p

\* int() of the digit string s[from .. to-1].
RECURSIVE ToInt(_, _, _)
ToInt(s, from, to) ==
  IF to <= from THEN 0
  ELSE 10 * ToInt(s, from, to - 1) + DigitVal(Char(s, to - 1))

\* Whether the literal lit occurs in s starting at position p.
LitAt(s, p, lit) ==
  /\ p >= 1
  /\ p + Len(lit) - 1 <= Len(s)
  /\ SubSeq(s, p, p + Len(lit) - 1) = lit

\* str.find: least position >= p where lit occurs, 0 if none.
RECURSIVE Find(_, _, _)
Find(s, p, lit) ==
  IF p + Len(lit) - 1 > Len(s) THEN 0
  ELSE IF LitAt(s, p, lit) THEN p
  ELSE Find(s, p + 1, lit)

Contains(s, lit) == Find(s, 1, lit) # 0

\* str.rstrip(): drop trailing whitespace.
RECURSIVE rstrip(_)
rstrip(s) ==
  IF Len(s) > 0 /\ Char(s, Len(s)) \in Spaces
  THEN rstrip(SubSeq(s, 1, Len(s) - 1))
  ELSE s

LowerChar(c) ==
  CASE c = "A" -> "a" [] c = "B" -> "b" [] c = "C" -> "c" [] c = "D" -> "d"
    [] c = "E" -> "e" [] c = "F" -> "f" [] c = "G" -> "g" [] c = "H" -> "h"
    [] c = "I" -> "i" [] c = "J" -> "j" [] c = "K" -> "k" [] c = "L" -> "l"
    [] c = "M" -> "m" [] c = "N" -> "n" [] c = "O" -> "o" [] c = "P" -> "p"
    [] c = "Q" -> "q" [] c = "R" -> "r" [] c = "S" -> "s" [] c = "T" -> "t"
    [] c = "U" -> "u" [] c = "V" -> "v" [] c = "W" -> "w" [] c = "X" -> "x"
    [] c = "Y" -> "y" [] c = "Z" -> "z" [] OTHER -> c

RECURSIVE Lower(_)
Lower(s) ==
  IF Len(s) = 0 THEN ""
  ELSE Lower(SubSeq(s, 1, Len(s) - 1)) \o LowerChar(Char(s, Len(s)))

(***************************************************************************)
(* The progress-total pattern                                              *)
(*   (\d+)\s+/\s+(\d+)\s+additional images mirrored successfully           *)
(* Every repetition is followed by a character outside its class, so the   *)
(* greedy match is the only one at a given start position.                 *)
(***************************************************************************)
ResultLiteral == "additional images mirrored successfully"

\* A variant of the pattern with \s* in place of \s+ around the slash.
ResultMatchAt_OptionalSpace(s, p) ==
  LET d1 == RunEnd(s, p, Digits)
      w1 == RunEnd(s, d1, Spaces)
      w2 == RunEnd(s, w1 + 1, Spaces)
      d2 == RunEnd(s, w2, Digits)
      w3 == RunEnd(s, d2, Spaces)
  IN  /\ d1 > p
      /\ Char(s, w1) = "/"
      /\ d2 > w2
      /\ w3 > d2
      /\ LitAt(s, w3, ResultLiteral)

ResultMatchAt(s, p) ==
  LET d1 == RunEnd(s, p, Digits)
      w1 == RunEnd(s, d1, Spaces)
      w2 == RunEnd(s, w1 + 1, Spaces)
      d2 == RunEnd(s, w2, Digits)
      w3 == RunEnd(s, d2, Spaces)
  IN  /\ d1 > p
      /\ w1 > d1
      /\ Char(s, w1) = "/"
      /\ w2 > w1 + 1
      /\ d2 > w2
      /\ w3 > d2
      /\ LitAt(s, w3, ResultLiteral)

\* re.search: the leftmost start position that matches, 0 if none.
RECURSIVE ResultSearch(_, _)
ResultSearch(s, p) ==
  IF p > Len(s) THEN 0
  ELSE IF ResultMatchAt(s, p) THEN p
  ELSE ResultSearch(s, p + 1)

\* result_match and its two groups converted by int().
result_match(s) ==
  LET p  == ResultSearch(s, 1)
      d1 == RunEnd(s, p, Digits)
      w1 == RunEnd(s, d1, Spaces)
      w2 == RunEnd(s, w1 + 1, Spaces)
      d2 == RunEnd(s, w2, Digits)
  IN  IF p = 0 THEN [matched |-> FALSE, mirrored |-> 0, images |-> 0]
      ELSE [matched |-> TRUE,
            mirrored |-> ToInt(s, p, d1),
            images |-> ToInt(s, w2, d2)]

(***************************************************************************)
(* The per-item completion pattern  Success copying .+ <arrow>             *)
(* The arrow glyph of the source is the two code points U+27A1 U+FE0F; the *)
(* two ASCII characters of ArrowGlyph stand for them.                      *)
(***************************************************************************)
ArrowGlyph == "->"

SuccessLiteral == "Success copying "

\* re.search: some occurrence of the literal, at least one character, then
\* a space and the arrow.
RECURSIVE SuccessSearch(_, _)
SuccessSearch(s, p) ==
  LET q == Find(s, p, SuccessLiteral)
  IN  IF q = 0 THEN FALSE
      ELSE IF Find(s, q + Len(SuccessLiteral) + 1, " " \o ArrowGlyph) # 0 THEN TRUE
      ELSE SuccessSearch(s, q + 1)

success_match(s) == SuccessSearch(s, 1)

(***************************************************************************)
(* The noise filter: the three patterns, escaped and joined with |,        *)
(* compiled with re.IGNORECASE.                                            *)
(***************************************************************************)
filter_patterns ==
  { "Hello, welcome to oc-mirror",
    "setting up the environment for you...",
    "using digest to pull, but tag only for mirroring" }

filter_regex_search(s) ==
  \E pat \in filter_patterns : Contains(Lower(s), Lower(pat))

(***************************************************************************)
(* strip_log_prefix                                                        *)
(***************************************************************************)
\* \d{4}/\d{2}/\d{2}\s+\d{2}:\d{2}:\d{2} matched at position p.
TimestampAt(s, p) ==
  LET w == RunEnd(s, p + 10, Spaces)
  IN  /\ \A i \in {0, 1, 2, 3, 5, 6, 8, 9} : Char(s, p + i) \in Digits
      /\ Char(s, p + 4) = "/"
      /\ Char(s, p + 7) = "/"
      /\ w > p + 10
      /\ \A i \in {0, 1, 3, 4, 6, 7} : Char(s, w + i) \in Digits
      /\ Char(s, w + 2) = ":"
      /\ Char(s, w + 5) = ":"

\* re.match(r'^.*?<timestamp>', line): the lazy prefix .*? skips any
\* characters but a newline.
TimestampMatch(s) ==
  \E p \in 1..Len(s) :
     /\ TimestampAt(s, p)
     /\ \A i \in 1..(p - 1) : Char(s, i) # "\n"

strip_log_prefix(line) ==
  LET q == Find(line, 1, ": ")
  IN  IF /\ TimestampMatch(line)
         /\ q # 0
         /\ Contains(SubSeq(line, 1, q - 1), "[")
      THEN SubSeq(line, q + 2, Len(line))
      ELSE line

(***************************************************************************)
(* MirrorResult                                                            *)
(***************************************************************************)
MirrorResult(images, mirrored) == [images |-> images, mirrored |-> mirrored]

\* A variant of the property that forgets the images != 0 test.
success_AllowsZero(r) == r.images = r.mirrored

success(r) == r.images # 0 /\ r.images = r.mirrored

(***************************************************************************)
(* Bounds and inputs of the model.                                         *)
(***************************************************************************)
\* Number of chunks the child writes in one run.
MaxWrites == 3

\* Number of chunks each child of a batch run writes.
BatchWrites == 2

\* Number of package entries of the batch list that are modelled.
NumPackages == 2

\* Capacity of one OS pipe, in chunks (one chunk is at least one byte).
PipeCap == 1

Streams == {"stdout", "stderr"}

\* The lines the child may print.
ChildLines ==
  { "2026/02/02 18:12:25  [INFO]   : Success copying img1 -> cache",
    "5 / 5 additional images mirrored successfully",
    "HELLO, welcome to oc-mirror: Success copying img2 -> cache, 1 / 2 additional images mirrored successfully",
    "0 / 0 additional images mirrored successfully" }

\* Exit codes the child may choose.
ExitCodes == {0, 1, 3}

\* Return code subprocess reports for a child killed by SIGPIPE.
SigPipeCode == 0 - 13

\* Pre-flight image counts returned by count_images_in_config.
ImageCounts == {0, 2}

Modes == {"m2m", "m2d", "d2m"}

ModeInputs == Modes \cup {"x2y"}

\* Lines 287-303: the command line for a mode.  Only what the three command
\* lines share is kept; the paths and the registry are not modelled.
MirrorCommand(m) == << "./oc-mirror", "--v2", "--config", "--authfile" >>

(***************************************************************************)
(* What travels through a pipe.  A chunk is one write of the child:        *)
(*   full  a whole line with its newline                                   *)
(*   head  the text of a line, its newline not yet written                 *)
(*   nl    the newline that ends the pending head                          *)
(*   bad   bytes that are not valid in the stream's text encoding          *)
(***************************************************************************)
Full(t) == [k |-> "full", text |-> t]
Head_(t) == [k |-> "head", text |-> t]
Newline == [k |-> "nl", text |-> ""]
BadBytes == [k |-> "bad", text |-> ""]

VARIABLES
  pc,            \* position of the parent in _execute_mirror / run_command
  total_images,  \* count_images_in_config's result
  cmd,           \* the command line built for the mode (<<>> before that)
  mode,          \* "" before _execute_mirror is called, then whether its mode
                 \* argument is one of m2m, m2d, d2m ("known") or not ("other")
  child,         \* "none", "running" or "exited"
  exitCode,      \* the child's exit status once it has exited
  pending,       \* the child's blocked write: <<>> or <<stream, chunk>>
  nWrites,       \* chunks the child has written or committed to write
  wopen,         \* per stream: the child's write end is open
  ropen,         \* per stream: the parent's read end is open
  pipe,          \* per stream: chunks in the OS pipe buffer
  ubuf,          \* per stream: chunks read into the file object's buffer
  written,       \* per stream: the lines the child has written, in order
  streams_open,  \* _process_streams: streams still registered
  events,        \* _process_streams: keys of sel.select() not yet handled
  result_data,   \* the accumulator dictionary
  sink,          \* per stream: lines forwarded to logger.debug / logger.error
  progress,      \* number of progress_bar() calls
  barTitle,      \* status glyph of the progress bar title
  oplog,         \* log records and printed lines of the operation itself
  runResult,     \* <<>> or <<the pair returned by run_command>>
  outcome,       \* <<>> or <<the MirrorResult returned by _execute_mirror>>
  exc,           \* the exception run_command caught ("" if none)
  convert,       \* convert.py: <<>> or <<what subprocess.run did, what run_command returned>>
  driver,        \* TRUE when the operations are called by the __main__ block
  entry,         \* __main__: 0 for the catalog, i for the i-th package entry
  handled,       \* __main__: the entries whose mirror call has returned, in order
  orphans,       \* __main__: children still running when their operation returned
  fnArg,         \* argument of a function applied on its own (<<>> if none)
  fnOut,         \* <<>> or <<the value the function returned>>
  call,          \* <<>> or <<what mirror_package found in its arguments>>
  outputs,       \* convert.py: per output path, the file's content (NoFile if absent)
  csvs,          \* convert.py: per case version, the images CSV (NoFile if absent)
  run,           \* convert.py: which run of the program this is
  verIdx,        \* convert.py: generate_iscs, position in case_versions
  archIdx,       \* convert.py: generate_iscs, position in architectures
  lastCall,      \* convert.py: <<>> or <<what the last generate_isc call did>>
  exitStatus     \* convert.py: <<>> or <<the exit status of the program>>

vars ==
  << pc, total_images, cmd, child, exitCode, pending, nWrites, wopen, ropen,
     pipe, ubuf, written, streams_open, events, result_data, sink, progress,
     barTitle, oplog, runResult, outcome, exc, convert, driver, entry,
     handled, orphans, fnArg, fnOut, mode, call, outputs, csvs, run, verIdx,
     archIdx, lastCall, exitStatus >>

childVars == << child, exitCode, pending, nWrites, wopen, pipe, written >>

convertVars ==
  << outputs, csvs, run, verIdx, archIdx, lastCall, exitStatus >>

mainVars ==
  << driver, entry, handled, orphans, fnArg, fnOut, call, convertVars >>

parentVars ==
  << pc, total_images, cmd, mode, streams_open, events, result_data, sink,
     progress, barTitle, oplog, runResult, outcome, ropen, ubuf, exc,
     convert >>

EmptyDict == [key \in {} |-> 0]

DictPut(d, key, v) ==
  [x \in DOMAIN d \cup {key} |-> IF x = key THEN v ELSE d[x]]

(***************************************************************************)
(* convert.py: the files generate_isc looks at.  An output path is a pair  *)
(* of a case version and an architecture (line 77); the images CSV belongs *)
(* to the case version (line 79).  A file is <<>> when absent and          *)
(* <<content>> when present.  An output file's content is the number of    *)
(* images listed in it and the run that wrote it (0: before the first      *)
(* run); a CSV's content is, per architecture, the number of its rows that *)
(* lines 104-136 select.                                                   *)
(***************************************************************************)
\* The case_versions and architectures arguments of generate_iscs.
case_versions == << "9.0.0", "9.1.0" >>

architectures == << "amd64", "s390x" >>

\* Most rows of a CSV selected for one architecture.
MaxRows == 1

\* Number of times the program is run.
NumRuns == 2

OutputPaths ==
  {<< case_versions[i], architectures[j] >> :
     i \in DOMAIN case_versions, j \in DOMAIN architectures}

CsvContents ==
  [{architectures[j] : j \in DOMAIN architectures} -> 0..MaxRows]

\* An output file left by an earlier run of the program.
PriorOutput == [rows |-> 1, run |-> 0]

\* convert.py is not running.
ConvertIdle ==
  /\ outputs = [p \in OutputPaths |-> <<>>]
  /\ csvs = [i \in DOMAIN case_versions |-> <<>>]
  /\ run = 0
  /\ verIdx = 0
  /\ archIdx = 0
  /\ lastCall = <<>>
  /\ exitStatus = <<>>

\* No mirror operation has started: the state a call of _execute_mirror finds.
OperationIdle ==
  /\ total_images = 0
  /\ cmd = <<>>
  /\ mode = ""
  /\ child = "none"
  /\ exitCode = 0
  /\ pending = <<>>
  /\ nWrites = 0
  /\ wopen = [s \in Streams |-> FALSE]
  /\ ropen = [s \in Streams |-> FALSE]
  /\ pipe = [s \in Streams |-> <<>>]
  /\ ubuf = [s \in Streams |-> <<>>]
  /\ written = [s \in Streams |-> <<>>]
  /\ streams_open = {}
  /\ events = <<>>
  /\ result_data = EmptyDict
  /\ sink = [s \in Streams |-> <<>>]
  /\ progress = 0
  /\ barTitle = "none"
  /\ oplog = <<>>
  /\ runResult = <<>>
  /\ outcome = <<>>
  /\ exc = ""
  /\ convert = <<>>

Init ==
  /\ pc = "start"
  /\ OperationIdle
  /\ driver = FALSE
  /\ entry = 0
  /\ handled = <<>>
  /\ orphans = 0
  /\ fnArg = <<>>
  /\ fnOut = <<>>
  /\ call = <<>>
  /\ ConvertIdle

(***************************************************************************)
(* The child process and the two pipes.                                    *)
(***************************************************************************)
\* The last chunk written to stream s that the parent has not consumed.
HeadOpen(s) ==
  IF pipe[s] # <<>> THEN pipe[s][Len(pipe[s])].k = "head"
  ELSE IF ubuf[s] # <<>> THEN ubuf[s][Len(ubuf[s])].k = "head"
  ELSE FALSE

\* The chunks the child may write to stream s next.
Writable(s) ==
  IF HeadOpen(s) THEN {Newline}
  ELSE {Full(t) : t \in ChildLines} \cup {Head_(t) : t \in ChildLines}
         \cup {BadBytes}

Record(w, s, c) ==
  IF c.k \in {"full", "head"}
  THEN [w EXCEPT ![s] = Append(@, c.text)]
  ELSE w

\* The writes left to the child: a bound of the model.
WriteBudget == IF driver THEN BatchWrites ELSE MaxWrites

\* write(2) on a pipe with room: the chunk enters the pipe buffer.
ChildWrite(s, c) ==
  /\ child = "running"
  /\ pending = <<>>
  /\ wopen[s] /\ ropen[s]
  /\ nWrites < WriteBudget
  /\ c \in Writable(s)
  /\ Len(pipe[s]) < PipeCap
  /\ pipe' = [pipe EXCEPT ![s] = Append(@, c)]
  /\ written' = Record(written, s, c)
  /\ nWrites' = nWrites + 1
  /\ UNCHANGED << child, exitCode, pending, wopen >>
  /\ UNCHANGED parentVars
  /\ UNCHANGED mainVars

\* write(2) on a full pipe: the child sleeps until the parent reads.
ChildBlock(s, c) ==
  /\ child = "running"
  /\ pending = <<>>
  /\ wopen[s] /\ ropen[s]
  /\ nWrites < WriteBudget
  /\ c \in Writable(s)
  /\ Len(pipe[s]) >= PipeCap
  /\ pending' = <<s, c>>
  /\ nWrites' = nWrites + 1
  /\ UNCHANGED << child, exitCode, wopen, pipe, written >>
  /\ UNCHANGED parentVars
  /\ UNCHANGED mainVars

\* The blocked write completes once the pipe has room again.
ChildUnblock ==
  /\ child = "running"
  /\ pending # <<>>
  /\ ropen[pending[1]]
  /\ Len(pipe[pending[1]]) < PipeCap
  /\ pipe' = [pipe EXCEPT ![pending[1]] = Append(@, pending[2])]
  /\ written' = Record(written, pending[1], pending[2])
  /\ pending' = <<>>
  /\ UNCHANGED << child, exitCode, nWrites, wopen >>
  /\ UNCHANGED parentVars
  /\ UNCHANGED mainVars

\* A write to a pipe whose read end is closed: the child dies of SIGPIPE.
ChildSigPipe ==
  /\ child = "running"
  /\ \E s \in Streams :
        /\ wopen[s] /\ ~ropen[s]
        /\ IF pending = <<>> THEN TRUE ELSE pending[1] = s
  /\ child' = "exited"
  /\ exitCode' = SigPipeCode
  /\ pending' = <<>>
  /\ wopen' = [s \in Streams |-> FALSE]
  /\ UNCHANGED << nWrites, pipe, written >>
  /\ UNCHANGED parentVars
  /\ UNCHANGED mainVars

\* The child closes one of its output streams and keeps running.
ChildClose(s) ==
  /\ child = "running"
  /\ pending = <<>>
  /\ wopen[s]
  /\ wopen' = [wopen EXCEPT ![s] = FALSE]
  /\ UNCHANGED << child, exitCode, pending, nWrites, pipe, written >>
  /\ UNCHANGED parentVars
  /\ UNCHANGED mainVars

\* The child exits: the OS closes its write ends.
ChildExit(code) ==
  /\ child = "running"
  /\ pending = <<>>
  /\ child' = "exited"
  /\ exitCode' = code
  /\ wopen' = [s \in Streams |-> FALSE]
  /\ UNCHANGED << pending, nWrites, pipe, written >>
  /\ UNCHANGED parentVars
  /\ UNCHANGED mainVars

(***************************************************************************)
(* _execute_mirror up to the call of run_command, and run_command up to    *)
(* Popen.                                                                  *)
(***************************************************************************)
LogRec(level, text) == << level, text >>

ExecuteMirrorStart(n, m) ==
  /\ pc = "start"
  /\ total_images' = n
  /\ mode' = IF m \in Modes THEN "known" ELSE "other"
  /\ IF n = 0
     THEN /\ oplog' = oplog \o
                << LogRec("info", "Using configuration"),
                   LogRec("error", "No images found in config or failed to parse"),
                   LogRec("print", "No images found in config") >>
          /\ outcome' = << MirrorResult(0, 0) >>
          /\ pc' = "done"
          /\ UNCHANGED << barTitle, cmd >>
     ELSE IF m \notin Modes
     THEN /\ oplog' = oplog \o
                << LogRec("info", "Using configuration"),
                   LogRec("info", "Found images to mirror"),
                   LogRec("error", "Unsupported mirror mode"),
                   LogRec("print", "Unsupported mirror mode") >>
          /\ outcome' = << MirrorResult(0, 0) >>
          /\ pc' = "done"
          /\ UNCHANGED << barTitle, cmd >>
     ELSE /\ cmd' = MirrorCommand(m)
          /\ oplog' = oplog \o
                << LogRec("info", "Using configuration"),
                   LogRec("info", "Found images to mirror"),
                   LogRec("info", "Executing") >>
          /\ barTitle' = "hourglass"
          /\ pc' = "spawn"
          /\ UNCHANGED outcome
  /\ UNCHANGED << streams_open, events, result_data, sink, progress,
                  runResult, ropen, ubuf, exc, convert >>
  /\ UNCHANGED childVars
  /\ UNCHANGED mainVars

\* Lines 252 and 256: what run_command returns, normally and from its except
\* clause.
RunCommandReturn(return_code, data) == [code |-> return_code, data |-> data]

\* A variant of the except clause that returns the shell's "command not
\* found" code.
ExceptResult_NotFoundCode == RunCommandReturn(127, EmptyDict)

\* A variant of the except clause that hands back what was captured before
\* the exception.
ExceptResult_KeepsData == RunCommandReturn(1, result_data)

\* Line 256: what the except clause returns.
ExceptResult == RunCommandReturn(1, EmptyDict)

\* subprocess.Popen succeeds; _process_streams registers both streams.
Spawn ==
  /\ pc = "spawn"
  /\ child' = "running"
  /\ wopen' = [s \in Streams |-> TRUE]
  /\ ropen' = [s \in Streams |-> TRUE]
  /\ streams_open' = Streams
  /\ result_data' = EmptyDict
  /\ pc' = "streams"
  /\ UNCHANGED << total_images, cmd, mode, events, sink, progress, barTitle,
                  oplog, runResult, outcome, ubuf,
                  exc, convert >>
  /\ UNCHANGED << exitCode, pending, nWrites, pipe, written >>
  /\ UNCHANGED mainVars

\* subprocess.Popen raises (the executable does not exist): the except
\* clause of run_command logs and returns (1, {}).
SpawnFail ==
  /\ pc = "spawn"
  /\ exc' = "FileNotFoundError"
  /\ oplog' = Append(oplog, LogRec("error", "Error executing command"))
  /\ runResult' = << ExceptResult >>
  /\ pc' = "returned"
  /\ UNCHANGED << total_images, cmd, mode, streams_open, events, result_data,
                  sink, progress, barTitle, outcome, ropen, ubuf,
                  convert >>
  /\ UNCHANGED childVars
  /\ UNCHANGED mainVars

(***************************************************************************)
(* _process_streams                                                        *)
(***************************************************************************)
\* A stream's file descriptor is readable: bytes in the pipe, or EOF.
Readable(s) == pipe[s] # <<>> \/ ~wopen[s]

\* sel.select(): the registered streams that are readable.
SelectReady == {s \in streams_open : Readable(s)}

\* The orders in which select() may list a set of keys.
Orders(S) ==
  {q \in UNION {[1..n -> S] : n \in {Cardinality(S)}} :
     \A i, j \in DOMAIN q : i # j => q[i] # q[j]}

\* The file object's buffer holds a complete line.
HasLine(b) ==
  /\ b # <<>>
  /\ \/ b[1].k = "full"
     \/ b[1].k = "head" /\ Len(b) >= 2

FirstLine(b) == b[1].text \o "\n"

AfterLine(b) == IF b[1].k = "full" THEN Tail(b) ELSE Tail(Tail(b))

\* The strings readline() can return in the model: a line of the child with
\* or without its newline.
KnownLines == ChildLines \cup {t \o "\n" : t \in ChildLines}

\* The pure computations lines 190-209 make on a line, evaluated once for
\* each string readline() can return.
LineFacts ==
  [line \in KnownLines |->
     LET line_stripped == rstrip(line)
     IN  [line_stripped |-> line_stripped,
          result_match  |-> result_match(line_stripped),
          success_match |-> success_match(line_stripped),
          filtered      |-> filter_regex_search(line_stripped),
          clean_line    |-> strip_log_prefix(line_stripped)]]

\* A variant of the capture that stores the images total of the first
\* progress-total line only, and the mirrored count of every one.
CaptureResult_ImagesOnce(d, line) ==
  LET m == LineFacts[line].result_match
  IN  IF m.matched
      THEN IF "images" \in DOMAIN d
           THEN DictPut(d, "mirrored", m.mirrored)
           ELSE DictPut(DictPut(d, "mirrored", m.mirrored), "images", m.images)
      ELSE d

\* Lines 192-197: the accumulator after a line.
CaptureResult(d, line) ==
  LET m == LineFacts[line].result_match
  IN  IF m.matched
      THEN DictPut(DictPut(d, "mirrored", m.mirrored), "images", m.images)
      ELSE d

\* A variant of the tick in which the bar is set to one instead of advanced.
TickProgress_SetToOne(n, line) ==
  IF LineFacts[line].success_match THEN 1 ELSE n

\* Lines 199-203: the progress bar after a line (progress_bar is the bar
\* _execute_mirror passes, never None).
TickProgress(n, line) ==
  IF LineFacts[line].success_match THEN n + 1 ELSE n

\* A variant of the forwarding step in which both streams share the DEBUG
\* sink of stdout.
ForwardLine_OneSink(sk, stream_type, line) ==
  IF ~LineFacts[line].filtered
  THEN [sk EXCEPT !["stdout"] = Append(@, LineFacts[line].clean_line)]
  ELSE sk

\* Lines 205-214: the sinks after a line of stream_type.
ForwardLine(sk, stream_type, line) ==
  IF ~LineFacts[line].filtered
  THEN IF stream_type = "stdout"
       THEN [sk EXCEPT !["stdout"] = Append(@, LineFacts[line].clean_line)]
       ELSE [sk EXCEPT !["stderr"] = Append(@, LineFacts[line].clean_line)]
  ELSE sk

\* A variant of the loop body that tests the noise filter first and skips the
\* rest of the body for a noise line.
HandleLine_FilterFirst(s, line) ==
  IF LineFacts[line].filtered
  THEN UNCHANGED << result_data, progress, sink >>
  ELSE /\ result_data' = CaptureResult(result_data, line)
       /\ progress' = TickProgress(progress, line)
       /\ sink' = ForwardLine(sink, s, line)

\* Lines 190-214 for one line read from stream s.
HandleLine(s, line) ==
  /\ result_data' = CaptureResult(result_data, line)
  /\ progress' = TickProgress(progress, line)
  /\ sink' = ForwardLine(sink, s, line)

\* Lines 184-188: readline() returned '', the stream is closed.
StreamClosed(so, s) == so \ {s}

\* while streams_open: events = sel.select(timeout=0.1).  A poll that times
\* out with no ready stream changes nothing and is left to stuttering.
Select ==
  /\ pc = "streams"
  /\ events = <<>>
  /\ streams_open # {}
  /\ SelectReady # {}
  /\ events' \in Orders(SelectReady)
  /\ UNCHANGED << pc, total_images, cmd, mode, streams_open, result_data, sink,
                  progress, barTitle, oplog, runResult, outcome, ropen, ubuf,
                  exc, convert >>
  /\ UNCHANGED childVars
  /\ UNCHANGED mainVars

\* What readline() on stream s has to look at: the file object's buffer,
\* and after it the pipe's content when the buffer holds no complete line.
Available(s) == IF HasLine(ubuf[s]) THEN ubuf[s] ELSE ubuf[s] \o pipe[s]

\* readline() has to read from the pipe and the bytes do not decode.
Undecodable(s) ==
  /\ ~HasLine(ubuf[s])
  /\ \E i \in DOMAIN pipe[s] : pipe[s][i].k = "bad"

\* stream.readline() returns a complete line, from the buffer or after one
\* read of the pipe; lines 190-214 handle it.
ReadLine ==
  /\ pc = "streams"
  /\ events # <<>>
  /\ LET s == Head(events)
     IN  /\ ~Undecodable(s)
         /\ HasLine(Available(s))
         /\ HandleLine(s, FirstLine(Available(s)))
         /\ ubuf' = [ubuf EXCEPT ![s] = AfterLine(Available(s))]
         /\ pipe' = IF HasLine(ubuf[s]) THEN pipe ELSE [pipe EXCEPT ![s] = <<>>]
  /\ events' = Tail(events)
  /\ UNCHANGED << pc, total_images, cmd, mode, streams_open, barTitle, oplog,
                  runResult, outcome, ropen,
                  exc, convert >>
  /\ UNCHANGED << child, exitCode, pending, nWrites, wopen, written >>
  /\ UNCHANGED mainVars

\* stream.readline() reads the pipe and still has no complete line: it goes
\* on waiting for the newline.
ReadPartial ==
  /\ pc = "streams"
  /\ events # <<>>
  /\ LET s == Head(events)
     IN  /\ ~Undecodable(s)
         /\ pipe[s] # <<>>
         /\ ~HasLine(Available(s))
         /\ ubuf' = [ubuf EXCEPT ![s] = Available(s)]
         /\ pipe' = [pipe EXCEPT ![s] = <<>>]
  /\ UNCHANGED << pc, total_images, cmd, mode, streams_open, events, result_data,
                  sink, progress, barTitle, oplog, runResult, outcome, ropen,
                  exc, convert >>
  /\ UNCHANGED << child, exitCode, pending, nWrites, wopen, written >>
  /\ UNCHANGED mainVars

\* stream.readline() reads bytes that do not decode: UnicodeDecodeError,
\* which nothing in _process_streams catches.  The exception leaves the
\* with block of run_command: Popen.__exit__ closes both read ends and then
\* waits for the child.
ReadError ==
  /\ pc = "streams"
  /\ events # <<>>
  /\ Undecodable(Head(events))
  /\ pipe' = [pipe EXCEPT ![Head(events)] = <<>>]
  /\ ropen' = [s \in Streams |-> FALSE]
  /\ exc' = "UnicodeDecodeError"
  /\ pc' = "unwind_wait"
  /\ UNCHANGED << total_images, cmd, mode, streams_open, events, result_data,
                  sink, progress, barTitle, oplog, runResult, outcome, ubuf,
                  convert >>
  /\ UNCHANGED << child, exitCode, pending, nWrites, wopen, written >>
  /\ UNCHANGED mainVars

\* stream.readline() at end of file: an unterminated last line is returned
\* as it is; otherwise '' is returned and the stream is unregistered.
ReadEOF ==
  /\ pc = "streams"
  /\ events # <<>>
  /\ LET s == Head(events)
     IN  /\ ~HasLine(ubuf[s])
         /\ pipe[s] = <<>>
         /\ ~wopen[s]
         /\ IF ubuf[s] # <<>>
            THEN /\ HandleLine(s, ubuf[s][1].text)
                 /\ ubuf' = [ubuf EXCEPT ![s] = <<>>]
                 /\ UNCHANGED streams_open
            ELSE /\ streams_open' = StreamClosed(streams_open, s)
                 /\ UNCHANGED << result_data, progress, sink, ubuf >>
  /\ events' = Tail(events)
  /\ UNCHANGED << pc, total_images, cmd, mode, barTitle, oplog, runResult,
                  outcome, ropen,
                  exc, convert >>
  /\ UNCHANGED childVars
  /\ UNCHANGED mainVars

\* The coordinator sleeps inside readline() on the head of events.
ReadBlocked ==
  /\ pc = "streams"
  /\ events # <<>>
  /\ ~HasLine(ubuf[Head(events)])
  /\ pipe[Head(events)] = <<>>
  /\ wopen[Head(events)]

\* while streams_open ends; sel.close(); _process_streams returns.
ProcessStreamsReturn ==
  /\ pc = "streams"
  /\ events = <<>>
  /\ streams_open = {}
  /\ pc' = "wait"
  /\ UNCHANGED << total_images, cmd, mode, streams_open, events, result_data,
                  sink, progress, barTitle, oplog, runResult, outcome, ropen,
                  ubuf,
                  exc, convert >>
  /\ UNCHANGED childVars
  /\ UNCHANGED mainVars

(***************************************************************************)
(* run_command after _process_streams                                      *)
(***************************************************************************)
\* Lines 247-252: process.wait(), the log record of a failure, the return
\* (Popen.__exit__ closes the read ends on the way out).
WaitReturn ==
  /\ pc = "wait"
  /\ child = "exited"
  /\ oplog' = IF exitCode # 0
              THEN Append(oplog, LogRec("error", "Command failed with exit code"))
              ELSE oplog
  /\ runResult' = << RunCommandReturn(exitCode, result_data) >>
  /\ ropen' = [s \in Streams |-> FALSE]
  /\ pc' = "returned"
  /\ UNCHANGED << total_images, cmd, mode, streams_open, events, result_data,
                  sink, progress, barTitle, outcome, ubuf,
                  exc, convert >>
  /\ UNCHANGED childVars
  /\ UNCHANGED mainVars

\* Lines 254-256: the child has exited, the except clause logs and returns
\* (1, {}).
\* A variant in which leaving the with-block does not wait for the child.
PopenExitWaited_NoWait == TRUE

\* Popen.__exit__, run when the exception leaves the with-block of lines
\* 236-252, closes the pipes and waits for the child.
PopenExitWaited == child = "exited"

ExceptReturn ==
  /\ pc = "unwind_wait"
  /\ PopenExitWaited
  /\ oplog' = Append(oplog, LogRec("error", "Error executing command"))
  /\ runResult' = << ExceptResult >>
  /\ pc' = "returned"
  /\ UNCHANGED << total_images, cmd, mode, streams_open, events, result_data,
                  sink, progress, barTitle, outcome, ropen, ubuf,
                  exc, convert >>
  /\ UNCHANGED childVars
  /\ UNCHANGED mainVars

(***************************************************************************)
(* _execute_mirror after run_command (lines 316-339)                       *)
(***************************************************************************)
HasCounts(data) == "images" \in DOMAIN data /\ "mirrored" \in DOMAIN data

\* A variant of the result mapping that trusts the captured totals whatever
\* the exit code.
MirrorOutcome_IgnoreExit(exit_code, data) ==
  IF HasCounts(data) THEN MirrorResult(data["images"], data["mirrored"])
  ELSE MirrorResult(0, 0)

\* A variant of the result mapping in which a run without captured totals
\* reports the pre-flight count as the images it was asked to mirror.
MirrorOutcome_UnparsedKeepsCount(exit_code, data) ==
  IF exit_code # 0 THEN MirrorResult(0, 0)
  ELSE IF HasCounts(data) THEN MirrorResult(data["images"], data["mirrored"])
  ELSE MirrorResult(total_images, 0)

\* A variant of the result mapping that reports the pre-flight count as the
\* number of images of a run whose totals were parsed.
MirrorOutcome_ImagesFromCount(exit_code, data) ==
  IF exit_code # 0 THEN MirrorResult(0, 0)
  ELSE IF HasCounts(data) THEN MirrorResult(total_images, data["mirrored"])
  ELSE MirrorResult(0, 0)

\* Lines 317-339: the MirrorResult _execute_mirror returns.
MirrorOutcome(exit_code, data) ==
  IF exit_code # 0 THEN MirrorResult(0, 0)
  ELSE IF HasCounts(data) THEN MirrorResult(data["images"], data["mirrored"])
  ELSE MirrorResult(0, 0)

FinalTitle(exit_code, data) ==
  IF exit_code # 0 THEN "cross"
  ELSE IF HasCounts(data)
  THEN IF success(MirrorResult(data["images"], data["mirrored"]))
       THEN "check" ELSE "warning"
  ELSE "warning"

FinalLog(exit_code, data) ==
  IF exit_code # 0
  THEN LogRec("error", "Mirror operation failed with exit code")
  ELSE IF HasCounts(data)
  THEN LogRec("info", "Mirror operation completed")
  ELSE LogRec("warning", "Mirror operation completed but could not parse result statistics")

ExecuteMirrorFinish ==
  /\ pc = "returned"
  /\ LET exit_code == runResult[1].code
         data == runResult[1].data
     IN  /\ barTitle' = FinalTitle(exit_code, data)
         /\ oplog' = Append(oplog, FinalLog(exit_code, data))
         /\ outcome' = << MirrorOutcome(exit_code, data) >>
  /\ pc' = "done"
  /\ UNCHANGED << total_images, cmd, mode, streams_open, events, result_data,
                  sink, progress, runResult, ropen, ubuf,
                  exc, convert >>
  /\ UNCHANGED childVars
  /\ UNCHANGED mainVars

(***************************************************************************)
(* convert.py: run_command (lines 23-56).  subprocess.run(check=True)      *)
(* returns, raises CalledProcessError for a nonzero exit, or raises        *)
(* FileNotFoundError when the executable does not exist.                   *)
(***************************************************************************)
ConvertRunEvents == {"exit_zero", "exit_nonzero", "not_found"}

ConvertRunCommand(ev) ==
  CASE ev = "exit_zero" ->
         [ret |-> 0, stderr |-> ""]
    [] ev = "exit_nonzero" ->
         [ret |-> 1, stderr |-> "Error executing command"]
    [] ev = "not_found" ->
         [ret |-> 1, stderr |-> "Error: 'oc' command not found. Please ensure OpenShift CLI is installed."]

ConvertRun(ev) ==
  /\ pc = "start"
  /\ convert' = << [ev |-> ev, result |-> ConvertRunCommand(ev)] >>
  /\ pc' = "convert_done"
  /\ UNCHANGED << total_images, cmd, mode, streams_open, events, result_data,
                  sink, progress, barTitle, oplog, runResult, outcome, ropen,
                  ubuf, exc >>
  /\ UNCHANGED childVars
  /\ UNCHANGED mainVars

Next ==
  \/ \E n \in ImageCounts, m \in ModeInputs : ExecuteMirrorStart(n, m)
  \/ Spawn
  \/ SpawnFail
  \/ \E s \in Streams : \E c \in Writable(s) : ChildWrite(s, c)
  \/ \E s \in Streams : \E c \in Writable(s) : ChildBlock(s, c)
  \/ ChildUnblock
  \/ ChildSigPipe
  \/ \E s \in Streams : ChildClose(s)
  \/ \E code \in ExitCodes : ChildExit(code)
  \/ Select
  \/ ReadLine
  \/ ReadPartial
  \/ ReadError
  \/ ReadEOF
  \/ ProcessStreamsReturn
  \/ WaitReturn
  \/ ExceptReturn
  \/ ExecuteMirrorFinish
  \/ \E ev \in ConvertRunEvents : ConvertRun(ev)

Spec == Init /\ [][Next]_vars

(***************************************************************************)
(* The __main__ block (lines 516-551): the catalog is mirrored, then every *)
(* entry of PACKAGE_CONFIGS in list order through mirror_package; the      *)
(* values the operations return are discarded.                             *)
(***************************************************************************)
BatchInit ==
  /\ pc = "main_catalog"
  /\ OperationIdle
  /\ driver = TRUE
  /\ entry = 0
  /\ handled = <<>>
  /\ orphans = 0
  /\ fnArg = <<>>
  /\ fnOut = <<>>
  /\ call = <<>>
  /\ ConvertIdle

\* Lines 516-521 and 399-405: mirror_catalog logs and calls _execute_mirror.
MainCatalog ==
  /\ pc = "main_catalog"
  /\ oplog' = << LogRec("info", "Mirroring catalog") >>
  /\ pc' = "start"
  /\ UNCHANGED << total_images, cmd, mode, streams_open, events, result_data,
                  sink, progress, barTitle, runResult, outcome, ropen, ubuf,
                  exc, convert >>
  /\ UNCHANGED childVars
  /\ UNCHANGED mainVars

\* Lines 524-534: the version of the entry is read from the catalog
\* dictionary that getCatalog returned.  A subscript whose key the catalog
\* does not hold raises KeyError, which nothing catches.
MainLookup(found) ==
  /\ pc = "main_pkg"
  /\ pc' = IF found THEN "pkg" ELSE "crashed"
  /\ UNCHANGED << total_images, cmd, mode, streams_open, events, result_data,
                  sink, progress, barTitle, oplog, runResult, outcome, ropen,
                  ubuf, exc, convert >>
  /\ UNCHANGED childVars
  /\ UNCHANGED mainVars

\* A variant of the guards of mirror_package that does not look at the flag.
PackageBranch_FlagIgnored(version_ok, flag) ==
  IF ~version_ok THEN "invalid" ELSE "mirror"

\* Lines 359-370: the branch mirror_package takes.  version_ok says that the
\* version has at least two dot-separated parts.
PackageBranch(version_ok, flag) ==
  IF ~version_ok THEN "invalid"
  ELSE IF ~flag THEN "disabled"
  ELSE "mirror"

\* Lines 358-382: mirror_package up to its call of _execute_mirror.
MirrorPackage(version_ok, flag) ==
  /\ pc = "pkg"
  /\ IF PackageBranch(version_ok, flag) = "invalid"
     THEN /\ oplog' = << LogRec("error", "Invalid version format") >>
          /\ outcome' = << MirrorResult(0, 0) >>
          /\ pc' = "done"
     ELSE IF PackageBranch(version_ok, flag) = "disabled"
     THEN /\ oplog' = << LogRec("info", "Skipping"),
                         LogRec("print", "Mirroring disabled by user") >>
          /\ outcome' = << MirrorResult(0, 0) >>
          /\ pc' = "done"
     ELSE /\ oplog' = << LogRec("info", "Mirroring") >>
          /\ pc' = "start"
          /\ UNCHANGED outcome
  /\ call' = << [version_ok |-> version_ok, flag |-> flag] >>
  /\ UNCHANGED << total_images, cmd, mode, streams_open, events, result_data,
                  sink, progress, barTitle, runResult, ropen, ubuf, exc,
                  convert >>
  /\ UNCHANGED childVars
  /\ UNCHANGED << driver, entry, handled, orphans, fnArg, fnOut >>
  /\ UNCHANGED convertVars

\* Lines 516-521 and 541-548: the operation has returned; its value is
\* dropped and the loop goes to the next entry, if any.  The state of the
\* finished operation is forgotten.
MainReturn ==
  /\ pc = "done"
  /\ handled' = Append(handled, entry)
  /\ orphans' = orphans + (IF child = "running" THEN 1 ELSE 0)
  /\ entry' = entry + 1
  /\ pc' = IF entry < NumPackages THEN "main_pkg" ELSE "main_end"
  /\ total_images' = 0
  /\ cmd' = <<>>
  /\ mode' = ""
  /\ call' = <<>>
  /\ child' = "none"
  /\ exitCode' = 0
  /\ pending' = <<>>
  /\ nWrites' = 0
  /\ wopen' = [s \in Streams |-> FALSE]
  /\ ropen' = [s \in Streams |-> FALSE]
  /\ pipe' = [s \in Streams |-> <<>>]
  /\ ubuf' = [s \in Streams |-> <<>>]
  /\ written' = [s \in Streams |-> <<>>]
  /\ streams_open' = {}
  /\ events' = <<>>
  /\ result_data' = EmptyDict
  /\ sink' = [s \in Streams |-> <<>>]
  /\ progress' = 0
  /\ barTitle' = "none"
  /\ oplog' = <<>>
  /\ runResult' = <<>>
  /\ outcome' = <<>>
  /\ exc' = ""
  /\ UNCHANGED << convert, driver, fnArg, fnOut >>
  /\ UNCHANGED convertVars

BatchNext ==
  \/ MainCatalog
  \/ \E found \in BOOLEAN : MainLookup(found)
  \/ \E version_ok \in BOOLEAN, flag \in BOOLEAN : MirrorPackage(version_ok, flag)
  \/ \E n \in ImageCounts, m \in Modes : ExecuteMirrorStart(n, m)
  \/ Spawn
  \/ SpawnFail
  \/ \E s \in Streams : \E c \in Writable(s) : ChildWrite(s, c)
  \/ \E s \in Streams : \E c \in Writable(s) : ChildBlock(s, c)
  \/ ChildUnblock
  \/ ChildSigPipe
  \/ \E s \in Streams : ChildClose(s)
  \/ \E code \in ExitCodes : ChildExit(code)
  \/ Select
  \/ ReadLine
  \/ ReadPartial
  \/ ReadError
  \/ ReadEOF
  \/ ProcessStreamsReturn
  \/ WaitReturn
  \/ ExceptReturn
  \/ ExecuteMirrorFinish
  \/ MainReturn

BatchSpec == BatchInit /\ [][BatchNext]_vars

(***************************************************************************)
(* convert.py: the program calls generate_iscs (lines 59-62), which calls  *)
(* generate_isc (lines 65-145) for every case version and, inside it, for  *)
(* every architecture.  A run of the program ends after the last call or   *)
(* at sys.exit(1); the program may then be run again on the same files.    *)
(***************************************************************************)
\* A variant of the test of line 81 that never finds the output file.
OutputExists_Never(path) == FALSE

\* Line 81: os.path.exists(output_path).
OutputExists(path) == outputs[path] # <<>>

\* A variant of the test of line 100 that lets every fetch pass.
FetchFailed_Never(result) == FALSE

\* Line 100: the fetch command's result is not 0.
FetchFailed(result) == result # 0

\* What one call of generate_isc did.
CallRecord(path, did, fetched, read, wrote) ==
  [path |-> path, did |-> did, fetched |-> fetched, read |-> read,
   wrote |-> wrote]

\* The output path of the call the loops of generate_iscs are at.
CurrentPath == << case_versions[verIdx], architectures[archIdx] >>

\* Lines 60-62: the loops go to the next architecture, then to the next
\* case version; after the last call the program ends with status 0.
Advance ==
  IF archIdx < Len(architectures)
  THEN /\ archIdx' = archIdx + 1
       /\ UNCHANGED << verIdx, pc, exitStatus >>
  ELSE IF verIdx < Len(case_versions)
  THEN /\ verIdx' = verIdx + 1
       /\ archIdx' = 1
       /\ UNCHANGED << pc, exitStatus >>
  ELSE /\ pc' = "gen_end"
       /\ exitStatus' = << 0 >>
       /\ UNCHANGED << verIdx, archIdx >>

\* The program ends with status 1: sys.exit(1) of line 101, or the
\* traceback of an exception nothing catches.
ExitOne ==
  /\ pc' = "gen_exit"
  /\ exitStatus' = << 1 >>
  /\ UNCHANGED << verIdx, archIdx >>

\* One call of generate_isc.  ev is what the fetch command does if it is
\* run, made the CSV it leaves behind (<<>>: none).
GenerateIsc(ev, made) ==
  /\ pc = "gen"
  /\ ev = "not_found" => made = <<>>
  /\ LET path  == CurrentPath
         arch  == architectures[archIdx]
         fetch == csvs[verIdx] = <<>>
         result == ConvertRunCommand(ev)
         csv   == IF fetch THEN made ELSE csvs[verIdx]
     IN  IF OutputExists(path)
         THEN \* lines 81-83
              /\ lastCall' = << CallRecord(path, "skipped", FALSE, FALSE, FALSE) >>
              /\ UNCHANGED << outputs, csvs, convert >>
              /\ Advance
         ELSE /\ convert' = IF fetch THEN << [ev |-> ev, result |-> result] >>
                            ELSE convert
              /\ csvs' = [csvs EXCEPT ![verIdx] = csv]
              /\ IF fetch /\ FetchFailed(result.ret)
                 THEN \* lines 100-101
                      /\ lastCall' = << CallRecord(path, "exit", TRUE, FALSE, FALSE) >>
                      /\ UNCHANGED outputs
                      /\ ExitOne
                 ELSE IF csv = <<>>
                 THEN \* line 105: open() raises FileNotFoundError
                      /\ lastCall' = << CallRecord(path, "crash", fetch, FALSE, FALSE) >>
                      /\ UNCHANGED outputs
                      /\ ExitOne
                 ELSE \* lines 103-145
                      LET rows == csv[1][arch]
                      IN  /\ outputs' =
                               IF rows > 0
                               THEN [outputs EXCEPT
                                       ![path] = << [rows |-> rows, run |-> run] >>]
                               ELSE outputs
                          /\ lastCall' =
                               << CallRecord(path,
                                             IF rows > 0 THEN "written" ELSE "empty",
                                             fetch, TRUE, rows > 0) >>
                          /\ Advance
  /\ UNCHANGED << total_images, cmd, mode, streams_open, events, result_data,
                  sink, progress, barTitle, oplog, runResult, outcome, ropen,
                  ubuf, exc >>
  /\ UNCHANGED childVars
  /\ UNCHANGED << driver, entry, handled, orphans, fnArg, fnOut, call, run >>

\* The program is started again after a run has ended.
RunAgain ==
  /\ pc \in {"gen_end", "gen_exit"}
  /\ run < NumRuns
  /\ run' = run + 1
  /\ verIdx' = 1
  /\ archIdx' = 1
  /\ lastCall' = <<>>
  /\ exitStatus' = <<>>
  /\ convert' = <<>>
  /\ pc' = "gen"
  /\ UNCHANGED << total_images, cmd, mode, streams_open, events, result_data,
                  sink, progress, barTitle, oplog, runResult, outcome, ropen,
                  ubuf, exc >>
  /\ UNCHANGED childVars
  /\ UNCHANGED << driver, entry, handled, orphans, fnArg, fnOut, call,
                  outputs, csvs >>

\* The first run starts on any set of output files and CSVs left by
\* earlier work.
ConvertInit ==
  /\ pc = "gen"
  /\ OperationIdle
  /\ driver = FALSE
  /\ entry = 0
  /\ handled = <<>>
  /\ orphans = 0
  /\ fnArg = <<>>
  /\ fnOut = <<>>
  /\ call = <<>>
  /\ outputs \in [OutputPaths -> {<<>>, << PriorOutput >>}]
  /\ csvs \in [DOMAIN case_versions -> {<<>>} \cup {<< c >> : c \in CsvContents}]
  /\ run = 1
  /\ verIdx = 1
  /\ archIdx = 1
  /\ lastCall = <<>>
  /\ exitStatus = <<>>

ConvertNext ==
  \/ \E ev \in ConvertRunEvents :
       \E made \in {<<>>} \cup {<< c >> : c \in CsvContents} :
         GenerateIsc(ev, made)
  \/ RunAgain

ConvertSpec == ConvertInit /\ [][ConvertNext]_vars

(***************************************************************************)
(* One call of mirror_package (lines 342-382) with any arguments.          *)
(***************************************************************************)
PackageInit ==
  /\ pc = "pkg"
  /\ OperationIdle
  /\ driver = FALSE
  /\ entry = 0
  /\ handled = <<>>
  /\ orphans = 0
  /\ fnArg = <<>>
  /\ fnOut = <<>>
  /\ call = <<>>
  /\ ConvertIdle

PackageNext ==
  \/ \E version_ok \in BOOLEAN, flag \in BOOLEAN : MirrorPackage(version_ok, flag)
  \/ \E n \in ImageCounts, m \in ModeInputs : ExecuteMirrorStart(n, m)
  \/ Spawn
  \/ SpawnFail
  \/ \E s \in Streams : \E c \in Writable(s) : ChildWrite(s, c)
  \/ \E s \in Streams : \E c \in Writable(s) : ChildBlock(s, c)
  \/ ChildUnblock
  \/ ChildSigPipe
  \/ \E s \in Streams : ChildClose(s)
  \/ \E code \in ExitCodes : ChildExit(code)
  \/ Select
  \/ ReadLine
  \/ ReadPartial
  \/ ReadError
  \/ ReadEOF
  \/ ProcessStreamsReturn
  \/ WaitReturn
  \/ ExceptReturn
  \/ ExecuteMirrorFinish

PackageSpec == PackageInit /\ [][PackageNext]_vars

(***************************************************************************)
(* The pure functions applied on their own: the progress-total pattern,    *)
(* strip_log_prefix and MirrorResult.success, each on one argument.        *)
(***************************************************************************)
\* Largest image count given to MirrorResult.
MaxCount == 5

\* Whitespace written on either side of the slash of a progress-total line.
Gaps == {"", " ", "  ", "\t"}

Numerals == { [text |-> "3", value |-> 3], [text |-> "10", value |-> 10],
              [text |-> "48", value |-> 48] }

\* Progress-total lines "<completed><left>/<right><total> additional ...".
TotalArgs ==
  { [kind |-> "total",
     line |-> a.text \o l \o "/" \o r \o b.text
                \o " additional images mirrored successfully\n",
     left |-> l, right |-> r, completed |-> a.value, total |-> b.value] :
       a \in Numerals, b \in Numerals, l \in Gaps, r \in Gaps }

\* Lines given to strip_log_prefix.
PrefixLines ==
  { "2026/02/02 18:12:25  [INFO]   : hello: world",
    "2026/02/02 18:12:25 [WARN] : using digest to pull",
    "2026/02/02 18:12:25  [INFO] done",
    "2026/02/02 18:12:25 INFO: msg",
    "2026/02/02 18:12:25  [INFO]   :tight",
    "2026/02/02 18:12:25 step: one [INFO] : msg",
    "[1/3] copying: started 2026/02/02 18:12:25",
    "note [a]: at 2026/02/02 18:12:25 done",
    "plain: text [x]",
    "no prefix at all",
    "" }

PrefixArgs == { [kind |-> "line", line |-> l] : l \in PrefixLines }

PairArgs ==
  { [kind |-> "pair", images |-> i, mirrored |-> m] :
       i \in 0..MaxCount, m \in 0..MaxCount }

FnInit ==
  /\ pc = "fn"
  /\ OperationIdle
  /\ driver = FALSE
  /\ entry = 0
  /\ handled = <<>>
  /\ orphans = 0
  /\ fnArg \in TotalArgs \cup PrefixArgs \cup PairArgs
  /\ fnOut = <<>>
  /\ call = <<>>
  /\ ConvertIdle

FnReturn(value) ==
  /\ pc = "fn"
  /\ fnOut' = << value >>
  /\ pc' = "fn_done"
  /\ UNCHANGED << driver, entry, handled, orphans, fnArg, call >>
  /\ UNCHANGED convertVars
  /\ UNCHANGED << total_images, cmd, mode, streams_open, events, result_data,
                  sink, progress, barTitle, oplog, runResult, outcome, ropen,
                  ubuf, exc, convert >>
  /\ UNCHANGED childVars

\* Lines 190-196 on one line read from a stream.
ApplyResultMatch ==
  /\ fnArg.kind = "total"
  /\ FnReturn(result_match(rstrip(fnArg.line)))

ApplyStripLogPrefix ==
  /\ fnArg.kind = "line"
  /\ FnReturn(strip_log_prefix(fnArg.line))

ApplySuccess ==
  /\ fnArg.kind = "pair"
  /\ FnReturn(success(MirrorResult(fnArg.images, fnArg.mirrored)))

FnNext ==
  \/ ApplyResultMatch
  \/ ApplyStripLogPrefix
  \/ ApplySuccess

FnSpec == FnInit /\ [][FnNext]_vars

(***************************************************************************)
(* What the claims speak of.                                               *)
(***************************************************************************)
\* The coordinator sleeps in readline() on stream s.
CoordinatorWaitsOn(s) == ReadBlocked /\ Head(events) = s

\* The child sleeps in a write to stream s whose pipe is full.
ChildWaitsOn(s) ==
  /\ child = "running"
  /\ pending # <<>>
  /\ pending[1] = s
  /\ ropen[s]
  /\ Len(pipe[s]) >= PipeCap

\* A read of a stream raised inside _process_streams.
ReadFailed == exc = "UnicodeDecodeError"

\* The stream whose read raised.
FailedStream == Head(events)

\* run_command returned through its normal return statement.
ReturnedNormally == runResult # <<>> /\ exc = ""

\* The lines of w that a sink must hold: the non-noise lines, cleaned, in
\* the order written.
RECURSIVE ExpectedSink(_)
ExpectedSink(w) ==
  IF w = <<>> THEN <<>>
  ELSE LET front == ExpectedSink(SubSeq(w, 1, Len(w) - 1))
           last  == LineFacts[w[Len(w)]]
       IN  IF last.filtered THEN front ELSE Append(front, last.clean_line)

\* The progress-total pairs <<mirrored, images>> of the lines of w, in order.
RECURSIVE Totals(_)
Totals(w) ==
  IF w = <<>> THEN <<>>
  ELSE LET front == Totals(SubSeq(w, 1, Len(w) - 1))
           m     == LineFacts[w[Len(w)]].result_match
       IN  IF m.matched THEN Append(front, << m.mirrored, m.images >>) ELSE front

\* The progress-total pairs the child emitted on either stream.
EmittedTotals == Totals(written["stdout"]) \o Totals(written["stderr"])

(***************************************************************************)
(* C1.  While draining a live child, the coordinator never waits on a read *)
(* of one stream while the child waits for the other stream to be drained. *)
(***************************************************************************)
C1_NoCrossStreamWait ==
  \A s \in Streams, t \in Streams :
     s # t => ~(CoordinatorWaitsOn(s) /\ ChildWaitsOn(t))

C3_ResultAfterDrainAndExit ==
  (runResult # <<>> /\ child # "none") =>
     /\ child = "exited"
     /\ streams_open = {}
     /\ \A s \in Streams : pipe[s] = <<>> /\ ubuf[s] = <<>>

(***************************************************************************)
(* C4.  When the child exits with a nonzero code, _execute_mirror returns  *)
(* {images: 0, mirrored: 0}, whatever the accumulator captured.            *)
(***************************************************************************)
C4_NonzeroExitGivesZero ==
  (pc = "done" /\ child = "exited" /\ exitCode # 0) =>
     outcome = << MirrorResult(0, 0) >>

\* The child exited 3 after a progress-total line was captured, and the
\* operation has returned.
C4_Witness ==
  /\ pc = "done"
  /\ child = "exited"
  /\ exitCode = 3
  /\ ReturnedNormally
  /\ HasCounts(result_data)
  /\ result_data["images"] = 5

(***************************************************************************)
(* C5.  When the child exits 0 and emitted exactly one progress-total line *)
(* "n / m additional images mirrored successfully" on either stream, the   *)
(* returned outcome is {images: m, mirrored: n}, and its success is true   *)
(* exactly when m > 0 and n = m.                                           *)
(***************************************************************************)
C5_SingleTotalIsOutcome ==
  (pc = "done" /\ child = "exited" /\ exitCode = 0 /\ Len(EmittedTotals) = 1) =>
     LET n == EmittedTotals[1][1]
         m == EmittedTotals[1][2]
     IN  /\ outcome = << MirrorResult(m, n) >>
         /\ success(outcome[1]) <=> (m > 0 /\ n = m)

C7_ReadErrorKeepsDraining ==
  (ReadFailed /\ pc \in {"returned", "done"}) =>
     \A t \in Streams \ {FailedStream} : sink[t] = ExpectedSink(written[t])

(***************************************************************************)
(* C8.  A read error alone is no process failure: when the child exited 0  *)
(* and a progress-total line was captured, the exit code reported is 0 and *)
(* the outcome is the captured pair.                                       *)
(***************************************************************************)
C8_ReadErrorNotEscalated ==
  (pc = "done" /\ ReadFailed /\ child = "exited" /\ exitCode = 0
     /\ HasCounts(result_data)) =>
     /\ runResult[1].code = 0
     /\ outcome = << MirrorResult(result_data["images"], result_data["mirrored"]) >>

\* The texts logged so far by run_command and _execute_mirror.
LoggedTexts == { oplog[i][2] : i \in 1..Len(oplog) }

\* _process_streams never started: nothing selected, read, forwarded or captured.
NoStreamRead ==
  /\ streams_open = {}
  /\ events = <<>>
  /\ result_data = EmptyDict
  /\ progress = 0
  /\ \A s \in Streams : sink[s] = <<>> /\ ubuf[s] = <<>>

(***************************************************************************)
(* C9.  A missing executable makes run_command fail before any stream is   *)
(* read, and what it returns then is returned by no run whose process was  *)
(* spawned and exited: the value (1, {}) without a read failure means that *)
(* no process ran.                                                         *)
(***************************************************************************)
C9_MissingToolIsDistinctValue ==
  /\ (runResult # <<>> /\ child = "none") => NoStreamRead
  /\ (runResult = << [code |-> 1, data |-> EmptyDict] >> /\ ~ReadFailed) => child = "none"

(***************************************************************************)
(* C9, as amended.  A missing executable makes run_command fail before any *)
(* stream is read and log "Error executing command" instead of "Command    *)
(* failed with exit code"; the value it returns, (1, {}), is the value of  *)
(* a process that exited with code 1 without a progress-total line.  In    *)
(* convert.py the two failures print different messages and both return 1. *)
(***************************************************************************)
C9_MissingToolSameValueOtherMessage ==
  /\ (runResult # <<>> /\ child = "none") =>
        /\ NoStreamRead
        /\ exc = "FileNotFoundError"
        /\ runResult = << [code |-> 1, data |-> EmptyDict] >>
        /\ "Error executing command" \in LoggedTexts
        /\ "Command failed with exit code" \notin LoggedTexts
  /\ (ReturnedNormally /\ child = "exited" /\ exitCode # 0) =>
        /\ runResult = << [code |-> exitCode, data |-> result_data] >>
        /\ "Command failed with exit code" \in LoggedTexts
        /\ "Error executing command" \notin LoggedTexts
  /\ (convert # <<>> /\ convert[1].ev = "not_found") =>
        /\ convert[1].result.ret = 1
        /\ convert[1].result.stderr =
             "Error: 'oc' command not found. Please ensure OpenShift CLI is installed."
  /\ (convert # <<>> /\ convert[1].ev = "exit_nonzero") =>
        /\ convert[1].result.ret = 1
        /\ convert[1].result.stderr = "Error executing command"

\* A spawned process exited with code 1 without a progress-total line, and
\* run_command returned the value it returns for a missing executable.
C9_Witness ==
  /\ ReturnedNormally
  /\ child = "exited"
  /\ exitCode = 1
  /\ runResult = << [code |-> 1, data |-> EmptyDict] >>
  /\ "Command failed with exit code" \in LoggedTexts

\* A line has just been taken from the stream at the head of the ready list
\* and handled (lines 182-214); the line is the one readline() returned.
LineHandled ==
  /\ pc = "streams"
  /\ events # <<>>
  /\ events' = Tail(events)
  /\ ubuf' # ubuf \/ pipe' # pipe
  /\ exc' = ""

HandledLine ==
  LET s == Head(events)
      b == Available(s)
  IN  IF HasLine(b) THEN FirstLine(b) ELSE rstrip(b[1].text)

(***************************************************************************)
(* C10.  Last write wins: after each processed progress-total line the     *)
(* accumulator holds exactly that line's (mirrored, images) pair, and the  *)
(* outcome of a run whose child exited 0 is the pair the accumulator holds *)
(* at the end, the pair of the last progress-total line processed.         *)
(***************************************************************************)
C10_LastWriteWins ==
  /\ [][ (LineHandled /\ result_match(HandledLine).matched) =>
            result_data' = [mirrored |-> result_match(HandledLine).mirrored,
                            images |-> result_match(HandledLine).images] ]_vars
  /\ []( (pc = "done" /\ child = "exited" /\ exitCode = 0 /\ HasCounts(result_data)) =>
            outcome = << MirrorResult(result_data["images"], result_data["mirrored"]) >> )

\* The number of lines of w that carry the per-item completion pattern.
RECURSIVE Ticks(_)
Ticks(w) ==
  IF w = <<>> THEN 0
  ELSE Ticks(SubSeq(w, 1, Len(w) - 1))
         + (IF LineFacts[w[Len(w)]].success_match THEN 1 ELSE 0)

\* The completion lines the child emitted on either stream.
EmittedTicks == Ticks(written["stdout"]) + Ticks(written["stderr"])

(***************************************************************************)
(* C11.  When _process_streams returns, progress_bar() has been called     *)
(* exactly as many times as the child emitted lines carrying the per-item  *)
(* completion pattern, however they are split between stdout and stderr.   *)
(***************************************************************************)
C11_TicksEqualCompletions ==
  pc = "wait" => progress = EmittedTicks

\* Two completion lines, one on each stream, have been read and ticked.
C11_Witness ==
  /\ pc = "wait"
  /\ progress = 2
  /\ Ticks(written["stdout"]) = 1
  /\ Ticks(written["stderr"]) = 1

(***************************************************************************)
(* C12.  The progress-total pattern accepts any whitespace around the      *)
(* slash, none included: every line "<completed><gap>/<gap><total>         *)
(* additional images mirrored successfully", such as "3/10 additional      *)
(* images mirrored successfully", yields the signal (completed, total).    *)
(***************************************************************************)
C12_AnyGapMatches ==
  (fnOut # <<>> /\ fnArg.kind = "total") =>
     fnOut[1] = [matched |-> TRUE, mirrored |-> fnArg.completed,
                 images |-> fnArg.total]

(***************************************************************************)
(* C12, as amended.  The pattern requires at least one whitespace          *)
(* character on each side of the slash: a line with whitespace on both     *)
(* sides yields the signal (completed, total), and a line with no          *)
(* whitespace on either side, such as "3/10 additional images mirrored     *)
(* successfully", yields no signal.                                        *)
(***************************************************************************)
C12_GapNeededOnBothSides ==
  (fnOut # <<>> /\ fnArg.kind = "total") =>
     IF fnArg.left # "" /\ fnArg.right # ""
     THEN fnOut[1] = [matched |-> TRUE, mirrored |-> fnArg.completed,
                      images |-> fnArg.total]
     ELSE ~fnOut[1].matched

\* The pattern has been applied to "3/10 additional images mirrored
\* successfully" and found no match.
C12_Witness ==
  /\ fnOut # <<>>
  /\ fnArg.kind = "total"
  /\ fnArg.left = "" /\ fnArg.right = ""
  /\ fnArg.completed = 3 /\ fnArg.total = 10
  /\ ~fnOut[1].matched

\* Position of the first ": " after the log-level marker of a line that
\* begins with a timestamp followed by a bracketed marker; 0 for other lines.
PrefixEnd(line) ==
  LET t == RunEnd(line, 11, Spaces)
      b == RunEnd(line, t + 8, Spaces)
      c == Find(line, b, "]")
  IN  IF TimestampAt(line, 1) /\ Char(line, b) = "[" /\ c # 0
      THEN Find(line, c + 1, ": ")
      ELSE 0

(***************************************************************************)
(* C13.  strip_log_prefix returns, for a line that begins with a timestamp *)
(* followed by a bracketed log-level marker and then ": ", the text after  *)
(* the first ": " that follows the marker, and returns every other line    *)
(* unchanged.                                                              *)
(***************************************************************************)
C13_StripsOnlyPrefixedLines ==
  (fnOut # <<>> /\ fnArg.kind = "line") =>
     LET q == PrefixEnd(fnArg.line)
     IN  fnOut[1] = IF q # 0
                    THEN SubSeq(fnArg.line, q + 2, Len(fnArg.line))
                    ELSE fnArg.line

(***************************************************************************)
(* C15.  MirrorResult.success is true exactly when images > 0 and images = *)
(* mirrored; for every pair of non-negative counts it yields a boolean,    *)
(* which is false when mirrored > images or images = 0.                    *)
(***************************************************************************)
C15_SuccessIffAllMirrored ==
  (fnOut # <<>> /\ fnArg.kind = "pair") =>
     /\ fnOut[1] \in BOOLEAN
     /\ fnOut[1] <=> (fnArg.images > 0 /\ fnArg.images = fnArg.mirrored)
     /\ (fnArg.mirrored > fnArg.images \/ fnArg.images = 0) => fnOut[1] = FALSE

\* success has been evaluated on images = 0, mirrored = 0 and returned false.
C15_Witness ==
  /\ fnOut # <<>>
  /\ fnArg.kind = "pair"
  /\ fnOut[1] = FALSE
  /\ fnArg.images = 0
  /\ fnArg.mirrored = 0

\* The lines readline() can return that contain, compared without regard to
\* case, one of the three banner or warning substrings.
NoiseLines ==
  { l \in KnownLines :
      \E pat \in filter_patterns : Contains(Lower(l), Lower(pat)) }

(***************************************************************************)
(* C14.  A handled line is kept from the log sinks exactly when it is      *)
(* noise, that is, contains one of the three configured substrings in any  *)
(* letter case; a noise line is still scanned: if it carries a             *)
(* progress-total signal the accumulator takes its pair, and if it carries *)
(* a per-item completion signal the progress bar advances by one.          *)
(***************************************************************************)
C14_NoiseHiddenButScanned ==
  [][ LineHandled =>
        LET l == HandledLine
            m == LineFacts[l].result_match
        IN  /\ (l \in NoiseLines) <=> (sink' = sink)
            /\ (l \in NoiseLines /\ m.matched) =>
                  result_data' = [mirrored |-> m.mirrored, images |-> m.images]
            /\ (l \in NoiseLines /\ LineFacts[l].success_match) =>
                  progress' = progress + 1 ]_vars

\* The only line written is the upper-case banner line that carries both
\* signals: nothing was forwarded, the pair was captured, the bar advanced.
C14_Witness ==
  /\ pc = "wait"
  /\ Len(written["stdout"]) = 1
  /\ written["stdout"][1] \in NoiseLines
  /\ written["stderr"] = <<>>
  /\ sink = [s \in Streams |-> <<>>]
  /\ HasCounts(result_data)
  /\ result_data["mirrored"] = 1
  /\ progress = 1

(***************************************************************************)
(* C16.  When the child exits 0 and a progress-total signal with mirrored  *)
(* different from images was captured, the operation ends in the warning   *)
(* state: the outcome carries the captured counts, its success is false,   *)
(* and the final title glyph is the warning glyph, not the failure glyph.  *)
(***************************************************************************)
C16_PartialMirrorIsWarning ==
  (/\ pc = "done"
   /\ child = "exited"
   /\ exitCode = 0
   /\ HasCounts(result_data)
   /\ result_data["mirrored"] # result_data["images"]) =>
     /\ outcome = << MirrorResult(result_data["images"], result_data["mirrored"]) >>
     /\ ~success(outcome[1])
     /\ barTitle = "warning"

\* What the operation leaves for the user and in the log: the final title
\* glyph and the last log record.
FinalState == << barTitle, oplog[Len(oplog)] >>

(***************************************************************************)
(* C17.  A run whose child exited 0 without a captured progress-total      *)
(* signal ends in a warning state that the logs and the bar tell apart     *)
(* from a run whose child exited 0 and reported 0 / 0: the first ends with *)
(* the warning glyph and the warning "could not parse result statistics",  *)
(* the second with the warning glyph and the info record of completion.    *)
(***************************************************************************)
C17_UnparsedDiffersFromZero ==
  (pc = "done" /\ child = "exited" /\ exitCode = 0) =>
     /\ ~HasCounts(result_data) =>
          FinalState =
            << "warning",
               << "warning",
                  "Mirror operation completed but could not parse result statistics" >> >>
     /\ (/\ HasCounts(result_data)
         /\ result_data["images"] = 0
         /\ result_data["mirrored"] = 0) =>
          FinalState = << "warning", << "info", "Mirror operation completed" >> >>

\* The records of the operation's log file, and the lines it printed.
LogEntries == { i \in 1..Len(oplog) : oplog[i][1] # "print" }
PrintedLines == { i \in 1..Len(oplog) : oplog[i][1] = "print" }

\* The package was skipped at the user's request (flag not set).
Skipped == LogRec("info", "Skipping") \in { oplog[i] : i \in 1..Len(oplog) }

(***************************************************************************)
(* C18.  Every failure path of a mirror operation leaves both a status     *)
(* line the user sees for that package (a printed line or a final title    *)
(* of the progress bar) and an entry in the log: no operation returns an   *)
(* unsuccessful result with only one of the two or with neither.           *)
(***************************************************************************)
C18_FailureShownAndLogged ==
  (pc = "done" /\ ~success(outcome[1]) /\ ~Skipped) =>
     /\ LogEntries # {}
     /\ PrintedLines # {} \/ barTitle \in {"cross", "warning"}

(***************************************************************************)
(* C19.  The batch goes on after every operation, whatever it returned:    *)
(* the entries are handled in list order, each once, and the batch stops   *)
(* only when the catalog and every package entry have been handled.        *)
(***************************************************************************)
C19_EveryEntryHandled ==
  /\ handled = [i \in 1..Len(handled) |-> i - 1]
  /\ (ENABLED BatchNext) \/ (pc = "main_end" /\ Len(handled) = NumPackages + 1)

\* Child processes alive: those left behind by earlier operations and the
\* child of the current one.
AliveChildren == orphans + (IF child = "running" THEN 1 ELSE 0)

(***************************************************************************)
(* C20.  Mirror operations run one after the other: at most one child is   *)
(* alive in any state of a batch run, a child runs only while its          *)
(* run_command is between Popen and its return, on the exception path      *)
(* too, and so has exited before the next operation spawns its child.      *)
(***************************************************************************)
C20_OneChildAtATime ==
  /\ AliveChildren <= 1
  /\ orphans = 0
  /\ child = "running" => pc \in {"streams", "wait", "unwind_wait"}
  /\ (pc \in {"returned", "done"} /\ child # "none") => child = "exited"

\* The catalog operation is over and the child of the first package runs.
C20_Witness ==
  /\ entry = 1
  /\ handled = << 0 >>
  /\ child = "running"
  /\ orphans = 0

\* The while loop of _process_streams is running.
Polling == pc = "streams"

\* End-of-data has been observed on stream s (lines 184-188).
EofSeen(s) == Polling /\ s \notin streams_open

(***************************************************************************)
(* C21.  A stream on which end-of-data was seen stays unregistered and is  *)
(* never polled or read again; the polling loop is left only when          *)
(* end-of-data was seen on both streams, and is left then; and once the    *)
(* child has closed both streams, _process_streams returns.                *)
(***************************************************************************)
C21_LoopEndsExactlyAtBothEof ==
  /\ [][\A s \in Streams :
          EofSeen(s) =>
            /\ ubuf'[s] = ubuf[s]
            /\ pipe'[s] = pipe[s]
            /\ (\A i \in DOMAIN events' : events'[i] # s)
            /\ (Polling' => s \notin streams_open')]_vars
  /\ [][(Polling /\ ~Polling') => streams_open = {}]_vars
  /\ []((Polling /\ streams_open = {}) => ENABLED ProcessStreamsReturn)

\* The streams the last poll reported ready whose readline() of this
\* iteration has not returned yet (the rest of the for loop of line 170).
ReadyUnread == {events[i] : i \in DOMAIN events}

(***************************************************************************)
(* C22.  A poll iteration reads at most one line from each stream and one  *)
(* line from every stream the poll reported ready: no stream is listed     *)
(* twice in one iteration, and a complete line that was ready on one       *)
(* stream at poll time is not held back while the coordinator waits inside *)
(* a read of the other stream.                                             *)
(***************************************************************************)
C22_ReadyLineNotHeldBack ==
  /\ \A i, j \in DOMAIN events : i # j => events[i] # events[j]
  /\ \A s \in Streams, t \in Streams :
       s # t => ~(/\ CoordinatorWaitsOn(s)
                  /\ t \in ReadyUnread
                  /\ HasLine(Available(t)))

(***************************************************************************)
(* C23.  The pre-flight count never reaches the outcome: when run_command  *)
(* reports exit code 0 with parsed totals, the operation completes without *)
(* an error record and returns the pair of a progress-total line of the    *)
(* child's output, whether or not its images value equals the pre-flight   *)
(* count; in every other case the outcome is {images: 0, mirrored: 0}.     *)
(***************************************************************************)
C23_OutcomeIgnoresPreflightCount ==
  (pc = "done" /\ runResult # <<>>) =>
     LET exit_code == runResult[1].code
         data      == runResult[1].data
     IN  IF exit_code = 0 /\ HasCounts(data)
         THEN /\ outcome = << MirrorResult(data["images"], data["mirrored"]) >>
              /\ \E i \in DOMAIN EmittedTotals :
                    EmittedTotals[i] = << data["mirrored"], data["images"] >>
              /\ barTitle \in {"check", "warning"}
              /\ oplog[Len(oplog)] = LogRec("info", "Mirror operation completed")
         ELSE outcome = << MirrorResult(0, 0) >>

\* A finished operation whose pre-flight count and parsed total disagree.
C23_Witness ==
  /\ pc = "done"
  /\ runResult # <<>>
  /\ runResult[1].code = 0
  /\ HasCounts(runResult[1].data)
  /\ total_images # runResult[1].data["images"]
  /\ runResult[1].data["images"] # 0
  /\ outcome[1].images = runResult[1].data["images"]

\* A child process was spawned for the operation.
Spawned == child # "none"

\* The four guards of a mirror_package call, as the call found them.
GuardsPass ==
  /\ call # <<>>
  /\ call[1].version_ok
  /\ call[1].flag
  /\ total_images > 0
  /\ mode = "known"

(***************************************************************************)
(* C25.  mirror_package spawns a child only when the version has two       *)
(* dot-separated parts, the flag is true, the pre-flight count is above 0  *)
(* and the mode is m2m, m2d or d2m; a call that ends with a guard failed   *)
(* has spawned nothing and returns {images: 0, mirrored: 0}.               *)
(***************************************************************************)
C25_SpawnOnlyWhenGuardsPass ==
  /\ Spawned => GuardsPass
  /\ (pc = "done" /\ ~GuardsPass) =>
        /\ ~Spawned
        /\ runResult = <<>>
        /\ outcome = << MirrorResult(0, 0) >>

\* A call with a well-formed version whose flag is false has returned
\* without a child.
C25_Witness ==
  /\ pc = "done"
  /\ call # <<>>
  /\ call[1].version_ok
  /\ ~call[1].flag
  /\ ~Spawned
  /\ outcome = << MirrorResult(0, 0) >>

\* An exception was raised inside the try block of run_command.
Raised == exc # ""

PairOfOneLine ==
  \E i \in DOMAIN EmittedTotals :
     EmittedTotals[i] = << result_data["mirrored"], result_data["images"] >>

(***************************************************************************)
(* C27.  Between line-processing steps the accumulator holds neither       *)
(* 'mirrored' nor 'images' or holds both, and then the two values are the  *)
(* pair of one progress-total line of the child; handling a line without   *)
(* the progress-total signal leaves the accumulator as it was.             *)
(***************************************************************************)
C27_AccumulatorPaired ==
  /\ [](/\ DOMAIN result_data \in {{}, {"mirrored", "images"}}
        /\ HasCounts(result_data) => PairOfOneLine)
  /\ [][(LineHandled /\ ~LineFacts[HandledLine].result_match.matched) =>
           result_data' = result_data]_vars

\* Two progress-total lines with different pairs were handled, then a line
\* without the signal: the accumulator holds the pair of the second.
C27_Witness ==
  /\ pc = "wait"
  /\ Len(EmittedTotals) = 2
  /\ EmittedTotals[1] # EmittedTotals[2]
  /\ Len(written["stdout"]) + Len(written["stderr"]) = 3
  /\ HasCounts(result_data)
  /\ PairOfOneLine

\* The last generate_isc call ran the fetch command and it failed: nonzero
\* exit or missing executable (run_command of convert.py returned 1).
FetchJustFailed ==
  /\ lastCall # <<>>
  /\ lastCall[1].fetched
  /\ convert # <<>>
  /\ convert[1].ev \in {"exit_nonzero", "not_found"}

(***************************************************************************)
(* C24.  When the images CSV is absent and the fetch command exits nonzero *)
(* or its executable is missing, the program ends with exit status 1 in    *)
(* that call of generate_isc: the CSV is not read, no output file is       *)
(* written for that call, and no later call of the run is made.            *)
(***************************************************************************)
C24_FetchFailureIsFatal ==
  /\ [](FetchJustFailed =>
          /\ pc = "gen_exit"
          /\ exitStatus = << 1 >>
          /\ lastCall[1].path = CurrentPath
          /\ ~lastCall[1].read
          /\ ~lastCall[1].wrote
          /\ outputs[CurrentPath] = <<>>)
  /\ [][pc = "gen_exit" => (outputs' = outputs /\ run' = run + 1)]_vars

\* The fetch of a call for the second architecture failed because the
\* executable is missing, after the first call of the run wrote its file.
C24_Witness ==
  /\ FetchJustFailed
  /\ convert[1].ev = "not_found"
  /\ pc = "gen_exit"
  /\ archIdx = 2
  /\ outputs[<< case_versions[1], architectures[1] >>] # <<>>
  /\ outputs[<< case_versions[1], architectures[1] >>][1].run = run

\* A call of generate_isc is made for an output path whose file exists.
CallOnExistingOutput ==
  /\ pc = "gen"
  /\ outputs[CurrentPath] # <<>>
  /\ lastCall' # <<>>
  /\ lastCall'[1].path = CurrentPath
  /\ run' = run

(***************************************************************************)
(* C28.  A call of generate_isc for an output file that already exists     *)
(* runs no fetch command, reads no CSV and leaves every file as it is, so  *)
(* an output file, once written, is the same after every later call and    *)
(* every later run.                                                        *)
(***************************************************************************)
C28_ExistingOutputUntouched ==
  /\ [][CallOnExistingOutput =>
          /\ lastCall'[1] = CallRecord(CurrentPath, "skipped", FALSE, FALSE, FALSE)
          /\ outputs' = outputs
          /\ csvs' = csvs
          /\ convert' = convert]_vars
  /\ [][\A p \in OutputPaths : outputs[p] # <<>> => outputs'[p] = outputs[p]]_vars

\* The second run has skipped the file the first run wrote.
C28_Witness ==
  /\ run = 2
  /\ lastCall # <<>>
  /\ lastCall[1].did = "skipped"
  /\ outputs[lastCall[1].path] # <<>>
  /\ outputs[lastCall[1].path][1].run = 1

====
